---- MODULE Spec2Model ----
(***************************************************************************)
(* Render Queue Manager: the queue dispatcher (RQM_OT_StartQueue and the   *)
(* render_complete / render_cancel handlers), the queue editing operators  *)
(* and the host (Blender) as the dispatcher sees it.                       *)
(*                                                                         *)
(* The host is modelled by what the code observes of it: the window's      *)
(* active scene, the modal instances it keeps ticking, the render jobs it  *)
(* was asked to start (FIFO) with is_job_running('RENDER') derived from    *)
(* them, and the lifecycle callbacks it delivers, late or never.           *)
(***************************************************************************)
EXTENDS Integers, Sequences, FiniteSets, TLC

\* ---------------------------------------------------------------- bounds
MaxQueue == 2
MaxInFlight == 2
MaxModals == 2
MaxEdits == 1
MaxCams == 2

\* ------------------------------------------------------- scenes and jobs
Scenes == {"SceneA", "SceneB"}
MissingScene == "Gone"

\* RQM_Job, reduced to the two fields the model keeps per job. The other fields
\* apply_job reads are drawn afresh at every apply_job (JobSetups): they are
\* properties the user may edit at any time and facts of the host's data.
RQM_Job(en, scn) == [enabled |-> en, scene_name |-> scn]

\* The job both add operators create: enabled, for a scene that exists.
NewJob(scn) == RQM_Job(TRUE, scn)

JobKinds ==
  { NewJob("SceneA"), NewJob("SceneB"),
    RQM_Job(FALSE, "SceneA"),
    RQM_Job(TRUE, MissingScene) }

SeqsUpTo(S, n) == UNION { [1..k -> S] : k \in 0..n }

\* ------------------------------------------------------------ apply_job
\* What apply_job finds besides the scene. engine_ok: scn.render.engine accepts
\* job.engine; markers_ok: every marker the job links to is selected and
\* found; comp_errors: sync_one_output returned an error for an enabled
\* compositor output; non_blocking: job.comp_outputs_non_blocking.
JobSetups ==
  [engine_ok : BOOLEAN, markers_ok : BOOLEAN, comp_errors : BOOLEAN,
   non_blocking : BOOLEAN]

\* apply_job makes the job's scene the window's scene once the scene is found.
ApplySwitches(job) == job.scene_name \in Scenes

\* apply_job without the comp_outputs_non_blocking test: any error blocks.
ApplyOkBlocking(job, js) ==
  /\ job.scene_name \in Scenes
  /\ js.engine_ok
  /\ js.markers_ok
  /\ ~js.comp_errors

\* The `ok` apply_job returns.
ApplyOk(job, js) ==
  /\ job.scene_name \in Scenes
  /\ js.engine_ok
  /\ js.markers_ok
  /\ (js.comp_errors => js.non_blocking)

\* The values of `ok` apply_job may return for a job, over all it may find.
ApplyResults(job) == { ApplyOk(job, js) : js \in JobSetups }

\* ------------------------------------------------------------- the state
\* The dispatcher's world (st .. ev), and `call`: the helper function last
\* called on its own, outside a run of the queue, with its argument and result.
VARIABLES st, winScene, modals, renders, edits, g, ev, call

vars == <<st, winScene, modals, renders, edits, g, ev, call>>

NoCall == [fn |-> "none"]

\* RQM_State as registered on every scene, plus the ad hoc attribute
\* _skip_increment_once the dispatcher and the handlers share.
RQM_State(q, ai) ==
  [queue |-> q, active_index |-> ai, running |-> FALSE, current_job_index |-> -1,
   render_in_progress |-> FALSE, skip_increment_once |-> FALSE]

\* Ghost: what the current run of one Queue State has done so far (the queue
\* indices apply_job was attempted for and the render call was invoked for).
NoRun == [applied |-> {}, invoked |-> {}, edited |-> FALSE]

NoEvent == "other"

Init ==
  /\ \E q \in SeqsUpTo(JobKinds, MaxQueue) :
       st = [s \in Scenes |->
               IF s = "SceneA" THEN RQM_State(q, 0) ELSE RQM_State(<<>>, 0)]
  /\ winScene = "SceneA"
  /\ modals = 0
  /\ renders = <<>>
  /\ edits = 0
  /\ g = [s \in Scenes |-> NoRun]
  /\ ev = NoEvent
  /\ call = NoCall

\* ------------------------------------------------------------- the host
\* A render the host was asked for: `scene` is the scene it renders (the one
\* its callback is called with), `phase` is "running" while the host counts it
\* as a render job and "ended" once it does not but its callback is still to
\* come. Ghost: `owner` is the Queue State whose tick dispatched it and `tag`
\* says what it is to that state: "cur" while it is the render of the owner's
\* current job, "stalled" once a stall tick has force-advanced past it,
\* "old" once the owner has moved on otherwise or its run has ended.
Render(sc, o) == [scene |-> sc, owner |-> o, phase |-> "running", tag |-> "cur"]

\* bpy.app.is_job_running('RENDER')
IsJobRunning == \E k \in DOMAIN renders : renders[k].phase = "running"

\* Ghost bookkeeping of the tags when the states go from st to new; stallOn is
\* the state a stall tick acts on, if the step is one.
Retag(rs, new, stallOn) ==
  [k \in DOMAIN rs |->
     LET r == rs[k]
         o == r.owner
     IN IF r.tag = "old" THEN r
        ELSE IF ~(st[o].running /\ new[o].running) THEN [r EXCEPT !.tag = "old"]
        ELSE IF new[o].current_job_index = st[o].current_job_index THEN r
        ELSE IF r.tag = "cur"
             THEN [r EXCEPT !.tag = IF stallOn = o THEN "stalled" ELSE "old"]
             ELSE r]

NoStall == "none"

\* ------------------------------------------------------------- handlers
\* The handler without its was_render test: it advances whenever the queue runs.
OnRenderEndAlways(T) ==
  LET inc == /\ T.running
             /\ ~T.skip_increment_once
             /\ T.current_job_index < Len(T.queue)
  IN [T EXCEPT !.render_in_progress = FALSE,
               !.current_job_index = IF inc THEN @ + 1 ELSE @,
               !.skip_increment_once = FALSE]

\* _on_render_complete / _on_render_cancel on the state _active_state(scene)
\* resolves: the two differ only in the post-processing and the status text.
OnRenderEnd(T) ==
  LET was_render == T.render_in_progress
      inc == /\ T.running
             /\ was_render
             /\ ~T.skip_increment_once
             /\ T.current_job_index < Len(T.queue)
  IN [T EXCEPT !.render_in_progress = FALSE,
               !.current_job_index = IF inc THEN @ + 1 ELSE @,
               !.skip_increment_once = FALSE]

\* -------------------------------------------------------- the dispatcher
\* The disabled-job loop as an `if`: it steps past one disabled job only.
SkipDisabledOnce(q, i) ==
  IF i < Len(q) /\ ~q[i + 1].enabled THEN i + 1 ELSE i

RECURSIVE SkipDisabled(_, _)
SkipDisabled(q, i) ==
  IF i < Len(q) /\ ~q[i + 1].enabled THEN SkipDisabled(q, i + 1) ELSE i

\* Start without the `not st.queue` test of its guard.
StartQueueEmptyToo ==
  LET s == winScene
      S == st[s]
      new == [st EXCEPT ![s].running = TRUE,
                        ![s].current_job_index = 0,
                        ![s].render_in_progress = FALSE]
  IN IF S.running
     THEN UNCHANGED vars
     ELSE /\ modals < MaxModals
          /\ st' = new
          /\ modals' = modals + 1
          /\ renders' = Retag(renders, new, NoStall)
          /\ g' = [g EXCEPT ![s] = NoRun]
          /\ ev' = "other"
          /\ UNCHANGED <<winScene, edits, call>>

\* RQM_OT_StartQueue.execute
StartQueue ==
  LET s == winScene
      S == st[s]
      new == [st EXCEPT ![s].running = TRUE,
                        ![s].current_job_index = 0,
                        ![s].render_in_progress = FALSE]
  IN IF S.running \/ Len(S.queue) = 0
     THEN UNCHANGED vars
     ELSE /\ modals < MaxModals
          /\ st' = new
          /\ modals' = modals + 1
          /\ renders' = Retag(renders, new, NoStall)
          /\ g' = [g EXCEPT ![s] = NoRun]
          /\ ev' = "other"
          /\ UNCHANGED <<winScene, edits, call>>

\* Stop without `st.render_in_progress = False`.
StopQueueKeepsFlag ==
  LET s == winScene
      new == [st EXCEPT ![s].running = FALSE,
                        ![s].current_job_index = -1]
  IN /\ st' = new
     /\ renders' = Retag(renders, new, NoStall)
     /\ g' = [g EXCEPT ![s] = NoRun]
     /\ ev' = "other"
     /\ UNCHANGED <<winScene, modals, edits, call>>

\* RQM_OT_StopQueue.execute
StopQueue ==
  LET s == winScene
      new == [st EXCEPT ![s].running = FALSE,
                        ![s].current_job_index = -1,
                        ![s].render_in_progress = FALSE]
  IN /\ st' = new
     /\ renders' = Retag(renders, new, NoStall)
     /\ g' = [g EXCEPT ![s] = NoRun]
     /\ ev' = "other"
     /\ UNCHANGED <<winScene, modals, edits, call>>

\* RQM_OT_StartQueue.modal: st = get_state(context) is the window scene's state.
TickState == st[winScene]

\* The index the `while` loop over disabled jobs leaves in current_job_index.
TickIndex == SkipDisabled(TickState.queue, TickState.current_job_index)

\* modal, `not st.running`: this modal instance ends.
ModalNotRunning ==
  /\ modals > 0
  /\ ~TickState.running
  /\ modals' = modals - 1
  /\ ev' = "other"
  /\ UNCHANGED <<st, winScene, renders, edits, g, call>>

\* modal, past the end of the queue: back to Idle, this modal instance ends.
TickComplete ==
  /\ modals > 0
  /\ TickState.running
  /\ TickIndex >= Len(TickState.queue)
  /\ LET new == [st EXCEPT ![winScene].running = FALSE,
                           ![winScene].current_job_index = -1]
     IN /\ st' = new
        /\ renders' = Retag(renders, new, NoStall)
  /\ modals' = modals - 1
  /\ g' = [g EXCEPT ![winScene] = NoRun]
  /\ ev' = "queue_complete"
  /\ UNCHANGED <<winScene, edits, call>>

\* The stall branch without `st._skip_increment_once = True`.
TickStallNoFlag ==
  /\ modals > 0
  /\ TickState.running
  /\ TickIndex < Len(TickState.queue)
  /\ TickState.render_in_progress
  /\ ~IsJobRunning
  /\ LET new == [st EXCEPT ![winScene].render_in_progress = FALSE,
                           ![winScene].current_job_index = TickIndex + 1]
     IN /\ st' = new
        /\ renders' = Retag(renders, new, winScene)
  /\ ev' = "stall"
  /\ UNCHANGED <<winScene, modals, edits, g, call>>

\* modal, render_in_progress and the host reports no render job: force-advance.
TickStall ==
  /\ modals > 0
  /\ TickState.running
  /\ TickIndex < Len(TickState.queue)
  /\ TickState.render_in_progress
  /\ ~IsJobRunning
  /\ LET new == [st EXCEPT ![winScene].skip_increment_once = TRUE,
                           ![winScene].render_in_progress = FALSE,
                           ![winScene].current_job_index = TickIndex + 1]
     IN /\ st' = new
        /\ renders' = Retag(renders, new, winScene)
  /\ ev' = "stall"
  /\ UNCHANGED <<winScene, modals, edits, g, call>>

\* modal, render_in_progress and the host reports a render job, or the query
\* itself raises (the `except: pass` around it): wait for the next tick.
TickWaiting ==
  /\ modals > 0
  /\ TickState.running
  /\ TickIndex < Len(TickState.queue)
  /\ TickState.render_in_progress
  /\ TRUE \in { queryRaises \/ IsJobRunning : queryRaises \in BOOLEAN }
  /\ LET new == [st EXCEPT ![winScene].current_job_index = TickIndex]
     IN /\ st' = new
        /\ renders' = Retag(renders, new, NoStall)
  /\ ev' = "other"
  /\ UNCHANGED <<winScene, modals, edits, g, call>>

\* The apply_job failure branch without `st.current_job_index += 1`.
TickApplyFailedStays ==
  /\ modals > 0
  /\ TickState.running
  /\ TickIndex < Len(TickState.queue)
  /\ ~TickState.render_in_progress
  /\ LET s == winScene
         k == TickIndex
         job == TickState.queue[k + 1]
         new == [st EXCEPT ![s].current_job_index = k]
     IN /\ FALSE \in ApplyResults(job)
        /\ winScene' = IF ApplySwitches(job) THEN job.scene_name ELSE s
        /\ st' = new
        /\ renders' = Retag(renders, new, NoStall)
        /\ g' = [g EXCEPT ![s].applied = @ \cup {k}]
        /\ ev' = "apply_failed"
  /\ UNCHANGED <<modals, edits, call>>

\* modal, apply_job fails: advance past the job without rendering. apply_job has
\* made the job's scene the window's scene unless the scene was not found (a
\* modal tick has a window, so the assignment itself is taken to succeed).
TickApplyFailed ==
  /\ modals > 0
  /\ TickState.running
  /\ TickIndex < Len(TickState.queue)
  /\ ~TickState.render_in_progress
  /\ LET s == winScene
         k == TickIndex
         job == TickState.queue[k + 1]
         new == [st EXCEPT ![s].current_job_index = k + 1]
     IN /\ FALSE \in ApplyResults(job)
        /\ winScene' = IF ApplySwitches(job) THEN job.scene_name ELSE s
        /\ st' = new
        /\ renders' = Retag(renders, new, NoStall)
        /\ g' = [g EXCEPT ![s].applied = @ \cup {k}]
        /\ ev' = "apply_failed"
  /\ UNCHANGED <<modals, edits, call>>

\* The dispatch without the `if st.render_in_progress:` branch before it.
TickRenderStartedWhileBusy ==
  /\ modals > 0
  /\ TickState.running
  /\ TickIndex < Len(TickState.queue)
  /\ Len(renders) < MaxInFlight
  /\ LET s == winScene
         k == TickIndex
         job == TickState.queue[k + 1]
         new == [st EXCEPT ![s].current_job_index = k,
                           ![s].render_in_progress = TRUE]
     IN /\ TRUE \in ApplyResults(job)
        /\ winScene' = job.scene_name
        /\ st' = new
        /\ renders' = Append(Retag(renders, new, NoStall), Render(job.scene_name, s))
        /\ g' = [g EXCEPT ![s].applied = @ \cup {k},
                          ![s].invoked = @ \cup {k}]
        /\ ev' = "render_started"
  /\ UNCHANGED <<modals, edits, call>>

\* modal, apply_job succeeds and bpy.ops.render.render returns: the host holds a
\* render of the window's scene.
TickRenderStarted ==
  /\ modals > 0
  /\ TickState.running
  /\ TickIndex < Len(TickState.queue)
  /\ ~TickState.render_in_progress
  /\ Len(renders) < MaxInFlight
  /\ LET s == winScene
         k == TickIndex
         job == TickState.queue[k + 1]
         new == [st EXCEPT ![s].current_job_index = k,
                           ![s].render_in_progress = TRUE]
     IN /\ TRUE \in ApplyResults(job)
        /\ winScene' = job.scene_name
        /\ st' = new
        /\ renders' = Append(Retag(renders, new, NoStall), Render(job.scene_name, s))
        /\ g' = [g EXCEPT ![s].applied = @ \cup {k},
                          ![s].invoked = @ \cup {k}]
        /\ ev' = "render_started"
  /\ UNCHANGED <<modals, edits, call>>

\* modal, apply_job succeeds and bpy.ops.render.render raises. The call is
\* synchronous (EXEC_DEFAULT): the host may have run the render_complete or
\* render_cancel handler for the window's scene inside it before it raised.
TickRenderRaised ==
  /\ modals > 0
  /\ TickState.running
  /\ TickIndex < Len(TickState.queue)
  /\ ~TickState.render_in_progress
  /\ LET s == winScene
         k == TickIndex
         job == TickState.queue[k + 1]
         sc == job.scene_name
         st1 == [st EXCEPT ![s].current_job_index = k,
                           ![s].render_in_progress = TRUE]
     IN /\ TRUE \in ApplyResults(job)
        /\ \E handlerRan \in BOOLEAN :
             LET st2 == IF handlerRan
                        THEN [st1 EXCEPT ![sc] = OnRenderEnd(st1[sc])]
                        ELSE st1
                 new == [st2 EXCEPT ![s].render_in_progress = FALSE,
                                    ![s].current_job_index = @ + 1]
             IN /\ st' = new
                /\ renders' = Retag(renders, new, NoStall)
                /\ ev' = IF handlerRan THEN "handler_then_raised" ELSE "render_raised"
        /\ winScene' = sc
        /\ g' = [g EXCEPT ![s].applied = @ \cup {k},
                          ![s].invoked = @ \cup {k}]
  /\ UNCHANGED <<modals, edits, call>>

\* ------------------------------------------------------ host callbacks
\* A render job of the host ends: is_job_running no longer counts it.
HostRenderEnds ==
  /\ \E k \in DOMAIN renders :
       /\ renders[k].phase = "running"
       /\ renders' = [renders EXCEPT ![k].phase = "ended"]
  /\ ev' = "other"
  /\ UNCHANGED <<st, winScene, modals, edits, g, call>>

\* The host never fires the callback of a render that has ended.
HostCallbackLost ==
  /\ renders # <<>>
  /\ Head(renders).phase = "ended"
  /\ renders' = Tail(renders)
  /\ ev' = "other"
  /\ UNCHANGED <<st, winScene, modals, edits, g, call>>

Advances(T) == OnRenderEnd(T).current_job_index # T.current_job_index

\* bpy.app.handlers.render_complete fires for the oldest render of the host.
RenderComplete ==
  /\ renders # <<>>
  /\ LET sc == Head(renders).scene
         new == [st EXCEPT ![sc] = OnRenderEnd(st[sc])]
     IN /\ st' = new
        /\ renders' = Retag(Tail(renders), new, NoStall)
        /\ ev' = IF Advances(st[sc]) THEN "complete_advanced" ELSE "complete_kept"
  /\ UNCHANGED <<winScene, modals, edits, g, call>>

\* bpy.app.handlers.render_cancel fires for the oldest render of the host.
RenderCancel ==
  /\ renders # <<>>
  /\ LET sc == Head(renders).scene
         new == [st EXCEPT ![sc] = OnRenderEnd(st[sc])]
     IN /\ st' = new
        /\ renders' = Retag(Tail(renders), new, NoStall)
        /\ ev' = IF Advances(st[sc]) THEN "cancel_advanced" ELSE "cancel_kept"
  /\ UNCHANGED <<winScene, modals, edits, g, call>>

\* ------------------------------------------------ queue editing operators
\* All of them act on get_state(context), the window scene's state, and none
\* looks at `running`. Init already ranges over the queues an idle user can
\* build, so the model spends its MaxEdits edits on a queue that is running.
EditAllowed == edits < MaxEdits /\ st[winScene].running

Edited(s) == [g EXCEPT ![s].edited = TRUE]

RemoveAt(q, i) == [k \in 1..(Len(q) - 1) |-> IF k <= i THEN q[k] ELSE q[k + 1]]

\* bpy collection move(a, b) for neighbours: the two entries swap.
Swap(q, a, b) == [q EXCEPT ![a + 1] = q[b + 1], ![b + 1] = q[a + 1]]

Min(a, b) == IF a < b THEN a ELSE b

\* RQM_OT_AddFromCurrent.execute
AddFromCurrent ==
  LET s == winScene
      q == Append(st[s].queue, NewJob(s))
  IN /\ EditAllowed
     /\ Len(st[s].queue) < MaxQueue
     /\ st' = [st EXCEPT ![s].queue = q, ![s].active_index = Len(q) - 1]
     /\ edits' = edits + 1
     /\ g' = Edited(s)
     /\ ev' = "other"
     /\ UNCHANGED <<winScene, modals, renders, call>>

\* RQM_OT_AddCamerasInScene.execute: one job per camera of the chosen scene.
AddCamerasInScene ==
  LET s == winScene
  IN \E scn \in Scenes, ncams \in 0..MaxCams :
       IF ncams = 0
       THEN UNCHANGED vars
       ELSE LET q == st[s].queue \o [k \in 1..ncams |-> NewJob(scn)]
            IN /\ EditAllowed
               /\ Len(q) <= MaxQueue
               /\ st' = [st EXCEPT ![s].queue = q, ![s].active_index = Len(q) - 1]
               /\ edits' = edits + 1
               /\ g' = Edited(s)
               /\ ev' = "other"
               /\ UNCHANGED <<winScene, modals, renders, call>>

\* RQM_OT_DuplicateJob.execute
DuplicateJob ==
  LET s == winScene
      S == st[s]
  IN \E index \in -1..(Len(S.queue) - 1) :
       LET src_idx == IF index >= 0 THEN index ELSE S.active_index
       IN IF Len(S.queue) = 0 \/ ~(0 <= src_idx /\ src_idx < Len(S.queue))
          THEN UNCHANGED vars
          ELSE LET q == Append(S.queue, S.queue[src_idx + 1])
               IN /\ EditAllowed
                  /\ Len(q) <= MaxQueue
                  /\ st' = [st EXCEPT ![s].queue = q, ![s].active_index = Len(q) - 1]
                  /\ edits' = edits + 1
                  /\ g' = Edited(s)
                  /\ ev' = "other"
                  /\ UNCHANGED <<winScene, modals, renders, call>>

\* RQM_OT_RemoveJob.execute
RemoveJob ==
  LET s == winScene
      S == st[s]
  IN \E index \in -1..(Len(S.queue) - 1) :
       LET idx == IF index >= 0 THEN index ELSE S.active_index
       IN IF 0 <= idx /\ idx < Len(S.queue)
          THEN LET q == RemoveAt(S.queue, idx)
               IN /\ EditAllowed
                  /\ st' = [st EXCEPT ![s].queue = q,
                                      ![s].active_index = Min(idx, Len(q) - 1)]
                  /\ edits' = edits + 1
                  /\ g' = Edited(s)
                  /\ ev' = "other"
                  /\ UNCHANGED <<winScene, modals, renders, call>>
          ELSE UNCHANGED vars

\* RQM_OT_ClearQueue.execute
ClearQueue ==
  LET s == winScene
  IN /\ EditAllowed
     /\ st' = [st EXCEPT ![s].queue = <<>>, ![s].active_index = 0]
     /\ edits' = edits + 1
     /\ g' = Edited(s)
     /\ ev' = "other"
     /\ UNCHANGED <<winScene, modals, renders, call>>

\* RQM_OT_MoveJob.execute. active_index is -1 only for an empty queue and never
\* exceeds the last index, so the range tests added to the code's conditions
\* change no reachable case.
MoveJob ==
  LET s == winScene
      S == st[s]
      idx == S.active_index
  IN \E direction \in {"UP", "DOWN"} :
       IF direction = "UP" /\ idx > 0 /\ idx < Len(S.queue)
       THEN /\ EditAllowed
            /\ st' = [st EXCEPT ![s].queue = Swap(S.queue, idx, idx - 1),
                                ![s].active_index = idx - 1]
            /\ edits' = edits + 1
            /\ g' = Edited(s)
            /\ ev' = "other"
            /\ UNCHANGED <<winScene, modals, renders, call>>
       ELSE IF direction = "DOWN" /\ idx >= 0 /\ idx < Len(S.queue) - 1
       THEN /\ EditAllowed
            /\ st' = [st EXCEPT ![s].queue = Swap(S.queue, idx, idx + 1),
                                ![s].active_index = idx + 1]
            /\ edits' = edits + 1
            /\ g' = Edited(s)
            /\ ev' = "other"
            /\ UNCHANGED <<winScene, modals, renders, call>>
       ELSE UNCHANGED vars

\* ------------------------------------------------------ specifications
Next ==
  \/ StartQueue
  \/ StopQueue
  \/ ModalNotRunning
  \/ TickComplete
  \/ TickStall
  \/ TickWaiting
  \/ TickApplyFailed
  \/ TickRenderStarted
  \/ TickRenderRaised
  \/ HostRenderEnds
  \/ HostCallbackLost
  \/ RenderComplete
  \/ RenderCancel
  \/ AddFromCurrent
  \/ AddCamerasInScene
  \/ DuplicateJob
  \/ RemoveJob
  \/ ClearQueue
  \/ MoveJob

Spec == Init /\ [][Next]_vars

\* One poll tick: the host calls modal for an event it hands the operator.
Tick ==
  \/ ModalNotRunning
  \/ TickComplete
  \/ TickStall
  \/ TickWaiting
  \/ TickApplyFailed
  \/ TickRenderStarted
  \/ TickRenderRaised

\* The host keeps handing events to a live modal (PASS_THROUGH keeps it in the
\* handler list), answers the render-job query often enough for a stall to be
\* seen, and ends every render job.
FairSpec ==
  /\ Spec
  /\ WF_vars(Tick)
  /\ WF_vars(TickStall)
  /\ WF_vars(HostRenderEnds)

\* ------------------------------------------- helper functions on their own
\* The dispatcher's world while a helper function is called on its own: idle,
\* with empty queues.
dvars == <<st, winScene, modals, renders, edits, g, ev>>

InitCalls ==
  /\ st = [s \in Scenes |-> RQM_State(<<>>, 0)]
  /\ winScene = "SceneA"
  /\ modals = 0
  /\ renders = <<>>
  /\ edits = 0
  /\ g = [s \in Scenes |-> NoRun]
  /\ ev = NoEvent
  /\ call = NoCall

\* ------------------------------------- apply_job and compositor outputs
MaxOutputs == 2

\* RQM_CompOutput, by what sync_one_output finds for it. node_found:
\* get_file_output_node returns a node; file_picked: base_source is not the
\* chosen-file source or base_file is set; dir_ok: ensure_dirs is off or
\* _ensure_dir succeeds.
RQM_CompOutput ==
  [enabled : BOOLEAN, node_found : BOOLEAN, file_picked : BOOLEAN, dir_ok : BOOLEAN]

\* sync_one_output: <<ok, msg>>
sync_one_output(out) ==
  IF ~out.node_found THEN <<FALSE, "Pick a File Output node">>
  ELSE IF ~out.file_picked THEN <<FALSE, "no file was picked">>
  ELSE IF ~out.dir_ok THEN <<FALSE, "Couldn't create folder">>
  ELSE <<TRUE, "OK">>

\* '; '.join(msgs), as the sequence of its pieces
RECURSIVE Join(_)
Join(msgs) ==
  IF Len(msgs) <= 1 THEN msgs
  ELSE <<Head(msgs), "; ">> \o Join(Tail(msgs))

\* The `errors` list apply_job collects over the enabled outputs.
RECURSIVE CompErrors(_)
CompErrors(outs) ==
  IF outs = <<>> THEN <<>>
  ELSE LET out == Head(outs)
           r == sync_one_output(out)
       IN (IF out.enabled /\ ~r[1] THEN <<r[2]>> ELSE <<>>) \o CompErrors(Tail(outs))

\* What apply_job is called on: the job and what it finds in the host.
ApplyArgs ==
  [job : {NewJob("SceneA"), RQM_Job(TRUE, MissingScene)},
   engine_ok : BOOLEAN, markers_ok : BOOLEAN,
   use_comp_outputs : BOOLEAN,
   comp_outputs : SeqsUpTo(RQM_CompOutput, MaxOutputs),
   non_blocking : BOOLEAN]

\* apply_job: <<ok, msg>>
apply_job(a) ==
  LET errors == IF a.use_comp_outputs /\ Len(a.comp_outputs) > 0
                THEN CompErrors(a.comp_outputs) ELSE <<>>
      js == [engine_ok |-> a.engine_ok, markers_ok |-> a.markers_ok,
             comp_errors |-> errors # <<>>, non_blocking |-> a.non_blocking]
  IN IF ApplyOk(a.job, js) THEN <<TRUE, <<"OK">>>>
     ELSE IF a.job.scene_name \notin Scenes THEN <<FALSE, <<"Scene not found.">>>>
     ELSE IF ~a.engine_ok THEN <<FALSE, <<"Engine not available on this build.">>>>
     ELSE IF ~a.markers_ok THEN <<FALSE, <<"marker not selected or not found">>>>
     ELSE <<FALSE, Join(errors)>>

ApplyJobCall ==
  /\ call = NoCall
  /\ \E a \in ApplyArgs :
       call' = [fn |-> "apply_job", arg |-> a, res |-> apply_job(a)]
  /\ UNCHANGED dvars

ApplySpec == InitCalls /\ [][ApplyJobCall]_vars

\* ------------------------------------------------ _sanitize_component
\* Strings are sequences of one-character strings.
MaxName == 4

Chars == {"c", "O", "N", "M", "1", " ", "\t", ".", "/"}

Whitespace == {" ", "\t"}

\* INVALID_CHARS = '<>:"/\\|?*'
INVALID_CHARS == {"<", ">", ":", "\"", "/", "\\", "|", "?", "*"}

reserved ==
  LET Digits1to9 == {"1", "2", "3", "4", "5", "6", "7", "8", "9"}
  IN {<<"C", "O", "N">>, <<"P", "R", "N">>, <<"A", "U", "X">>, <<"N", "U", "L">>}
       \cup {<<"C", "O", "M", d>> : d \in Digits1to9}
       \cup {<<"L", "P", "T", d>> : d \in Digits1to9}

LowerLetters ==
  <<"a", "b", "c", "d", "e", "f", "g", "h", "i", "j", "k", "l", "m",
    "n", "o", "p", "q", "r", "s", "t", "u", "v", "w", "x", "y", "z">>

UpperLetters ==
  <<"A", "B", "C", "D", "E", "F", "G", "H", "I", "J", "K", "L", "M",
    "N", "O", "P", "Q", "R", "S", "T", "U", "V", "W", "X", "Y", "Z">>

\* The character of `to` at the place c has in `from`, or c itself.
MapChar(c, from, to) ==
  IF \E i \in DOMAIN from : from[i] = c
  THEN to[CHOOSE i \in DOMAIN from : from[i] = c]
  ELSE c

\* str.upper
Upper(str) == [i \in DOMAIN str |-> MapChar(str[i], LowerLetters, UpperLetters)]

\* str.lower
Lower(str) == [i \in DOMAIN str |-> MapChar(str[i], UpperLetters, LowerLetters)]

RECURSIVE LStrip(_, _)
LStrip(str, set) ==
  IF str # <<>> /\ Head(str) \in set THEN LStrip(Tail(str), set) ELSE str

RECURSIVE RStrip(_, _)
RStrip(str, set) ==
  IF str # <<>> /\ str[Len(str)] \in set
  THEN RStrip(SubSeq(str, 1, Len(str) - 1), set) ELSE str

\* str.strip()
Strip(str) == RStrip(LStrip(str, Whitespace), Whitespace)

\* re.sub(r'\s+', ' ', str)
RECURSIVE CollapseSpaces(_)
CollapseSpaces(str) ==
  IF str = <<>> THEN <<>>
  ELSE IF Head(str) \in Whitespace
       THEN <<" ">> \o CollapseSpaces(LStrip(str, Whitespace))
       ELSE <<Head(str)>> \o CollapseSpaces(Tail(str))

untitled == <<"u", "n", "t", "i", "t", "l", "e", "d">>

\* ''.join('_' if c in INVALID_CHARS else c for c in name)
ReplaceInvalid(str) ==
  [i \in DOMAIN str |-> IF str[i] \in INVALID_CHARS THEN "_" ELSE str[i]]

\* The name before the tests for an empty and a reserved name.
Cleaned(name) ==
  RStrip(Strip(CollapseSpaces(ReplaceInvalid(Strip(name)))), {"."})

\* The end of _sanitize_component without the reserved-name test.
FinishUnwrapped(cleaned) ==
  IF cleaned = <<>> THEN untitled ELSE cleaned

Finish(cleaned) ==
  IF cleaned = <<>> THEN untitled
  ELSE IF Upper(cleaned) \in reserved THEN <<"_">> \o cleaned \o <<"_">>
  ELSE cleaned

sanitize_component(name) == Finish(Cleaned(name))

SanitizeCall ==
  /\ call = NoCall
  /\ \E name \in SeqsUpTo(Chars, MaxName) :
       call' = [fn |-> "sanitize_component", arg |-> name,
                res |-> sanitize_component(name)]
  /\ UNCHANGED dvars

SanitizeSpec == InitCalls /\ [][SanitizeCall]_vars

\* ------------------------------------------------------ job_file_prefix
MaxBase == 2

Shot010 == <<"S", "h", "o", "t", "0", "1", "0">>

str_base == <<"b", "a", "s", "e">>

str_comp == <<"c", "o", "m", "p">>

str_job == <<"j", "o", "b">>

str_output == <<"o", "u", "t", "p", "u", "t">>

str_node == <<"N", "o", "d", "e">>

\* x or d
OrDefault(x, d) == IF x = <<>> THEN d ELSE x

\* str.strip(chars)
StripSet(str, set) == RStrip(LStrip(str, set), set)

\* str.replace(from, to) for single characters
Replace(str, from, to) ==
  [i \in DOMAIN str |-> IF str[i] = from THEN to ELSE str[i]]

StartsWith(str, prefix) ==
  /\ Len(str) >= Len(prefix)
  /\ SubSeq(str, 1, Len(prefix)) = prefix

\* '_'.join(parts)
RECURSIVE JoinStr(_)
JoinStr(parts) ==
  IF parts = <<>> THEN <<>>
  ELSE IF Len(parts) = 1 THEN parts[1]
  ELSE parts[1] \o <<"_">> \o JoinStr(Tail(parts))

safe_job_of(job) == sanitize_component(OrDefault(job.name, str_job))

remove_job_prefix(token, safe_job) ==
  LET stripped(tok) ==
        IF tok = <<>> THEN <<>>
        ELSE IF Lower(tok) = Lower(safe_job) THEN <<>>
        ELSE IF StartsWith(Lower(tok), Lower(safe_job))
             THEN StripSet(LStrip(SubSeq(tok, Len(safe_job) + 1, Len(tok)),
                                  {"_", "-", " "}),
                           {"_", " ", "-"})
             ELSE tok
  IN stripped(StripSet(token, {"_", " ", "-"}))

\* _append_job_suffix(folder, job, token), as the final folder component.
append_job_suffix(job, token) ==
  LET suffixed(safe_tail, safe_job) ==
        IF /\ job.suffix_output_folders_with_job
           /\ ~StartsWith(Lower(safe_tail), Lower(safe_job))
        THEN safe_job \o <<"_">> \o safe_tail
        ELSE safe_tail
  IN suffixed(sanitize_component(token), safe_job_of(job))

\* The components of job_root_dir(job) below abspath(job.output_path).
job_root_dir(job) == <<safe_job_of(job)>>

\* The components of base_render_dir(job) below abspath(job.output_path).
base_render_dir(job) == job_root_dir(job) \o <<append_job_suffix(job, str_base)>>

\* base_dir is a sequence of path components below abspath(job.output_path);
\* the components after job_root_dir(job) are what os.path.relpath gives.
derive_subfolder_tokens(job, base_dir, fallback_tokens) ==
  LET \* the end of _add_token: seen_lower is the lower-case form of tokens
      add_safe(tokens, safe) ==
        IF safe = <<>> THEN tokens
        ELSE IF \E i \in DOMAIN tokens : Lower(tokens[i]) = Lower(safe)
             THEN tokens
             ELSE Append(tokens, safe)
      add_token(tokens, raw, safe_job) ==
        IF raw = <<>> THEN tokens
        ELSE add_safe(tokens,
                      StripSet(remove_job_prefix(sanitize_component(raw), safe_job),
                               {"_", " ", "-"}))
      RECURSIVE add_tokens(_, _, _)
      add_tokens(tokens, raws, safe_job) ==
        IF raws = <<>> THEN tokens
        ELSE add_tokens(add_token(tokens, Head(raws), safe_job), Tail(raws),
                        safe_job)
      dir_tokens(root, safe_job) ==
        IF base_dir = <<>> THEN <<>>
        ELSE IF Len(base_dir) > Len(root) /\ SubSeq(base_dir, 1, Len(root)) = root
             THEN add_tokens(<<>>, SubSeq(base_dir, Len(root) + 1, Len(base_dir)),
                             safe_job)
             ELSE add_token(<<>>, base_dir[Len(base_dir)], safe_job)
      tokens_or_default(tokens, safe_job) ==
        IF tokens # <<>> THEN tokens
        ELSE OrDefault(add_token(<<>>, sanitize_component(job.file_basename),
                                 safe_job),
                       <<str_output>>)
      derive(safe_job) ==
        tokens_or_default(
          add_tokens(dir_tokens(job_root_dir(job), safe_job), fallback_tokens,
                     safe_job),
          safe_job)
  IN derive(safe_job_of(job))

job_file_prefix(job, base_dir, fallback_tokens, override_token, append_tokens) ==
  LET normalize(token) ==
        StripSet(Replace(sanitize_component(token), " ", "_"), {"_"})
      \* the end of _push, cleaned being _normalize(token)
      push_cleaned(seq, cleaned) ==
        IF cleaned = <<>> THEN seq
        ELSE IF seq # <<>> /\ Lower(seq[Len(seq)]) = Lower(cleaned) THEN seq
        ELSE Append(seq, cleaned)
      push(seq, token) == push_cleaned(seq, normalize(token))
      RECURSIVE push_all(_, _)
      push_all(seq, tokens) ==
        IF tokens = <<>> THEN seq
        ELSE push_all(push(seq, Head(tokens)), Tail(tokens))
      \* [_normalize(tok) for tok in sub_tokens if _normalize(tok)]
      RECURSIVE tail_parts(_)
      tail_parts(sub_tokens) ==
        IF sub_tokens = <<>> THEN <<>>
        ELSE push_cleaned(<<>>, normalize(Head(sub_tokens)))
               \o tail_parts(Tail(sub_tokens))
      sub_tokens_of(file_base) ==
        IF override_token # <<>> THEN <<sanitize_component(override_token)>>
        ELSE IF file_base # <<>> THEN <<file_base>>
        ELSE derive_subfolder_tokens(job, base_dir, fallback_tokens)
      \* `if safe_tail: _push(components, safe_tail)`
      push_tail(components, safe_tail) ==
        IF safe_tail # <<>> THEN push(components, safe_tail) ELSE components
      \* components before the append tokens
      components_of(safe_job, safe_tail) ==
        OrDefault(push_tail(IF job.prefix_files_with_job_name
                            THEN push(<<>>, safe_job) ELSE <<>>,
                            safe_tail),
                  push(<<>>, safe_job))
      \* `if not prefix_core.endswith(' ')`
      with_trailing_space(prefix_core) ==
        IF prefix_core[Len(prefix_core)] # " " THEN prefix_core \o <<" ">>
        ELSE prefix_core
      \* core is '_'.join(components).strip('_ ')
      prefix_of(core, safe_job) ==
        with_trailing_space(
          IF core = <<>> THEN OrDefault(normalize(safe_job), str_job) ELSE core)
      prefix(safe_job) ==
        prefix_of(
          StripSet(
            JoinStr(push_all(
              components_of(
                safe_job,
                JoinStr(tail_parts(
                  sub_tokens_of(sanitize_component(job.file_basename))))),
              append_tokens)),
            {"_", " "}),
          safe_job)
  IN prefix(safe_job_of(job))

PrefixJobs ==
  [name : {<<>>, Shot010, str_base},
   file_basename : SeqsUpTo({"r", " ", "_"}, MaxBase),
   prefix_files_with_job_name : BOOLEAN,
   suffix_output_folders_with_job : BOOLEAN]

PrefixArgs ==
  { [job |-> job, base_dir |-> dir, fallback_tokens |-> fb,
     override_token |-> ov, append_tokens |-> ap] :
      job \in PrefixJobs,
      dir \in {<<>>, <<str_comp>>, <<Shot010, Shot010>>, <<Shot010, str_base>>,
                <<str_base, str_base>>},
      fb \in {<<str_base>>, <<str_comp>>},
      ov \in {<<>>, str_node},
      ap \in {<<>>, <<str_node>>} }

PrefixCall ==
  /\ call = NoCall
  /\ \E a \in PrefixArgs :
       call' = [fn |-> "job_file_prefix", arg |-> a,
                res |-> job_file_prefix(a.job, a.base_dir, a.fallback_tokens,
                                        a.override_token, a.append_tokens)]
  /\ UNCHANGED dvars

PrefixSpec == InitCalls /\ [][PrefixCall]_vars

\* ---------------------------------------------------- _rebase_numbering
\* A file of the job's base directory is [name, content]: name is the frame
\* field of the file name, a sequence of digits (prefix, tag and extension
\* are carried over unchanged by the rename), content is the frame that was
\* rendered into it.
MaxFrame == 3

FrameWidths == {3, 4}

\* str(n)
StrOf(n) == IF n < 10 THEN <<n>> ELSE <<n \div 10, n % 10>>

\* int(digits)
RECURSIVE IntOf(_)
IntOf(digits) ==
  IF digits = <<>> THEN 0
  ELSE 10 * IntOf(SubSeq(digits, 1, Len(digits) - 1)) + digits[Len(digits)]

\* str.zfill(width)
RECURSIVE ZFill(_, _)
ZFill(digits, width) ==
  IF Len(digits) >= width THEN digits ELSE ZFill(<<0>> \o digits, width)

\* Every order os.listdir can return the names of dir in.
Listings(dir) ==
  { l \in [1..Cardinality(dir) -> { f.name : f \in dir }] :
      \A i, j \in DOMAIN l : i # j => l[i] # l[j] }

compute_src_range(job) ==
  IF job.frame_end < job.frame_start
  THEN <<job.frame_start, job.frame_start>>
  ELSE <<job.frame_start, job.frame_end>>

\* The loop over os.listdir(root); os.replace of a source that is gone
\* raises after the destination was removed.
RECURSIVE rebase_root(_, _, _, _)
rebase_root(dir, listing, src_start, src_end) ==
  LET \* the body of the loop for one fname
      rebase_one(fname) ==
        LET frame_no == IntOf(fname)
            new_name == ZFill(StrOf(frame_no - src_start), Len(fname))
            without_dst == { f \in dir : f.name # new_name }
        IN IF frame_no < src_start \/ frame_no > src_end THEN dir
           ELSE IF new_name = fname THEN dir
           ELSE { IF f.name = fname THEN [f EXCEPT !.name = new_name] ELSE f :
                    f \in without_dst }
  IN IF listing = <<>> THEN dir
     ELSE rebase_root(rebase_one(Head(listing)), Tail(listing), src_start,
                      src_end)

\* The files a job leaves in its base directory when it renders its range.
Rendered(job, width) ==
  { [name |-> ZFill(StrOf(f), width), content |-> f] :
      f \in job.frame_start..job.frame_end }

RebaseJobs ==
  { job \in [frame_start : 0..MaxFrame, frame_end : 0..MaxFrame] :
      job.frame_start <= job.frame_end }

\* search_roots holds the base directory twice: first as bdir, then again
\* as a first-level subfolder of the job root.
RebaseCall ==
  /\ call = NoCall
  /\ \E job \in RebaseJobs, width \in FrameWidths :
       LET range == compute_src_range(job)
           dir0 == Rendered(job, width)
       IN \E l1 \in Listings(dir0) :
            LET dir1 == rebase_root(dir0, l1, range[1], range[2])
            IN \E l2 \in Listings(dir1) :
                 call' = [fn |-> "rebase_numbering",
                          arg |-> [job |-> job, width |-> width,
                                   listings |-> <<l1, l2>>],
                          res |-> rebase_root(dir1, l2, range[1], range[2])]
  /\ UNCHANGED dvars

RebaseSpec == InitCalls /\ [][RebaseCall]_vars

\* ------------------------------------------------------- _stereo_rename
\* File names are sequences of characters; a directory is the set of the
\* names in it.
Digits == {"0", "1", "2", "3", "4", "5", "6", "7", "8", "9"}

Alnum ==
  Digits \cup { LowerLetters[i] : i \in DOMAIN LowerLetters }
         \cup { UpperLetters[i] : i \in DOMAIN UpperLetters }

Letters == Alnum \ Digits

str_Left == <<"L", "e", "f", "t">>

str_Right == <<"R", "i", "g", "h", "t">>

str_png == <<".", "p", "n", "g">>

AllIn(str, from, to, set) == \A i \in from..to : str[i] \in set

EndsWith(str, suffix) ==
  /\ Len(str) >= Len(suffix)
  /\ SubSeq(str, Len(str) - Len(suffix) + 1, Len(str)) = suffix

Contains(str, part) ==
  \E i \in 0..(Len(str) - Len(part)) : SubSeq(str, i + 1, i + Len(part)) = part

MaxOf(S) == CHOOSE x \in S : \A y \in S : y <= x

MinOf(S) == CHOOSE x \in S : \A y \in S : x <= y

NoMatch == [matched |-> FALSE]

\* The last place of c in str, 0 if it has none.
LastIndexOf(str, c) == MaxOf({0} \cup { i \in DOMAIN str : str[i] = c })

\* The first place of c in str, Len(str) + 1 if it has none.
FirstIndexOf(str, c) ==
  MinOf({Len(str) + 1} \cup { i \in DOMAIN str : str[i] = c })

\* The characters a file name is made of: what '.' of a regular expression
\* matches here.
AnyChar == Alnum \cup {" ", "_", "-", "."}

\* A regular expression is the sequence of its segments. A segment takes
\* characters of set for the named group: exactly min of them, or min and
\* more when many; the longest run first unless lazy. words are alternatives
\* tried before the set, letter case aside; an optional segment may take
\* nothing, as its last alternative.
Seg(group, set, min, many) ==
  [group |-> group, set |-> set, min |-> min, many |-> many, lazy |-> FALSE,
   words |-> <<>>, optional |-> FALSE]

\* The lengths a segment can take at pos, in the order the matcher tries
\* them.
Cands(seg, str, pos) ==
  LET hit(w) == /\ pos + Len(w) - 1 <= Len(str)
                /\ Lower(SubSeq(str, pos, pos + Len(w) - 1)) = Lower(w)
      WordLens(words) == [i \in DOMAIN words |-> Len(words[i])]
      \* the length of the run of characters of seg.set that starts at pos
      Run ==
        MaxOf({ k \in 0..(Len(str) - pos + 1) :
                  AllIn(str, pos, pos + k - 1, seg.set) })
      Lengths(run) ==
        IF run < seg.min THEN <<>>
        ELSE IF ~seg.many THEN <<seg.min>>
        ELSE IF seg.lazy THEN [i \in 1..(run - seg.min + 1) |-> seg.min + i - 1]
        ELSE [i \in 1..(run - seg.min + 1) |-> run - i + 1]
  IN WordLens(SelectSeq(seg.words, hit))
       \o Lengths(Run)
       \o (IF seg.optional THEN <<0>> ELSE <<>>)

Fail == <<-1>>

\* The lengths the segments take when they match str from pos to its end,
\* found as a backtracking matcher finds them; Fail if there is no match.
RECURSIVE MatchSegs(_, _, _)
RECURSIVE TryCands(_, _, _, _)
TryCands(str, pos, segs, cands) ==
  LET OrElse(k, rest) ==
        IF rest # Fail THEN <<k>> \o rest
        ELSE TryCands(str, pos, segs, Tail(cands))
  IN IF cands = <<>> THEN Fail
     ELSE OrElse(Head(cands), MatchSegs(str, pos + Head(cands), Tail(segs)))

MatchSegs(str, pos, segs) ==
  IF segs = <<>> THEN (IF pos = Len(str) + 1 THEN <<>> ELSE Fail)
  ELSE TryCands(str, pos, segs, Cands(Head(segs), str, pos))

\* m.group(group): what the segments of the group took.
RECURSIVE GroupOf(_, _, _, _, _)
GroupOf(str, pos, segs, lens, group) ==
  IF segs = <<>> THEN <<>>
  ELSE (IF Head(segs).group = group
        THEN SubSeq(str, pos, pos + Head(lens) - 1) ELSE <<>>)
         \o GroupOf(str, pos + Head(lens), Tail(segs), Tail(lens), group)

\* pat.match(name)
MatchRe(name, segs) ==
  LET GroupsOf(lens) ==
        IF lens = Fail THEN NoMatch
        ELSE [matched |-> TRUE, base |-> GroupOf(name, 1, segs, lens, "base"),
              view |-> GroupOf(name, 1, segs, lens, "view"),
              frame |-> GroupOf(name, 1, segs, lens, "frame"),
              ext |-> GroupOf(name, 1, segs, lens, "ext")]
  IN GroupsOf(MatchSegs(name, 1, segs))

\* ^(?P<base>.+?)
base_seg == [Seg("base", AnyChar, 1, TRUE) EXCEPT !.lazy = TRUE]

\* (?P<ext>\.[^.]+)$
ext_segs == <<Seg("ext", {"."}, 1, FALSE), Seg("ext", AnyChar \ {"."}, 1, TRUE)>>

\* [_-]
sep_seg == Seg("sep", {"_", "-"}, 1, FALSE)

\* _view_pat_variants, compiled with IGNORECASE:
\*   ^(?P<base>.+?)(?P<view>Left|Right|[A-Za-z0-9]{2,})?(?P<frame>\d+)(?P<ext>\.[^.]+)$
\*   ^(?P<base>.+?)(?P<frame>\d+)[_-](?P<view>[A-Za-z0-9]+)(?P<ext>\.[^.]+)$
\*   ^(?P<base>.+?)(?P<frame>\d+)(?P<view>[A-Za-z])(?P<ext>\.[^.]+)$
\*   ^(?P<base>.+?)[_-](?P<view>[A-Za-z0-9]+)(?P<frame>\d+)(?P<ext>\.[^.]+)$
\*   ^(?P<base>.+?)(?P<view>[A-Za-z0-9]+)[_-](?P<frame>\d+)(?P<ext>\.[^.]+)$
view_pat_variants ==
  << <<base_seg,
       [Seg("view", Alnum, 2, TRUE) EXCEPT !.words = <<str_Left, str_Right>>,
                                           !.optional = TRUE],
       Seg("frame", Digits, 1, TRUE)>> \o ext_segs,
     <<base_seg, Seg("frame", Digits, 1, TRUE), sep_seg,
       Seg("view", Alnum, 1, TRUE)>> \o ext_segs,
     <<base_seg, Seg("frame", Digits, 1, TRUE),
       Seg("view", Letters, 1, FALSE)>> \o ext_segs,
     <<base_seg, sep_seg, Seg("view", Alnum, 1, TRUE),
       Seg("frame", Digits, 1, TRUE)>> \o ext_segs,
     <<base_seg, Seg("view", Alnum, 1, TRUE), sep_seg,
       Seg("frame", Digits, 1, TRUE)>> \o ext_segs >>

\* The match of the first of pats that matches name.
RECURSIVE FirstMatch(_, _)
FirstMatch(name, pats) ==
  LET FirstOr(m) == IF m.matched THEN m ELSE FirstMatch(name, Tail(pats))
  IN IF pats = <<>> THEN NoMatch ELSE FirstOr(MatchRe(name, Head(pats)))

view_match(name) == FirstMatch(name, view_pat_variants)

\* _num_before_suffix_pat:
\* ^(?P<base>.+?)(?P<frame>\d{3,})(?P<tag>_[A-Za-z0-9]+)(?P<ext>\.[^.]+)$
\* view holds the tag with its leading underscore.
num_before_suffix_pat ==
  <<base_seg, Seg("frame", Digits, 3, TRUE), Seg("view", {"_"}, 1, FALSE),
    Seg("view", Alnum, 1, TRUE)>> \o ext_segs

num_before_suffix_match(name) == MatchRe(name, num_before_suffix_pat)

\* _plain_frame_pat: ^(?P<base>.+?)(?P<frame>\d{3,})(?P<ext>\.[^.]+)$
plain_frame_pat == <<base_seg, Seg("frame", Digits, 3, TRUE)>> \o ext_segs

plain_frame_match(name) == MatchRe(name, plain_frame_pat)

\* [p for p in _dup_token_sep.split(str) if p], _dup_token_sep = [_\.]+
RECURSIVE SplitTokens(_, _)
SplitTokens(str, cur) ==
  IF str = <<>> THEN (IF cur = <<>> THEN <<>> ELSE <<cur>>)
  ELSE IF Head(str) \in {"_", "."}
       THEN (IF cur = <<>> THEN <<>> ELSE <<cur>>) \o SplitTokens(Tail(str), <<>>)
       ELSE SplitTokens(Tail(str), Append(cur, Head(str)))

\* Drops a part that repeats the part before it, letter case aside.
RECURSIVE Dedup(_, _)
Dedup(parts, dedup) ==
  IF parts = <<>> THEN dedup
  ELSE IF dedup # <<>> /\ Lower(dedup[Len(dedup)]) = Lower(Head(parts))
       THEN Dedup(Tail(parts), dedup)
       ELSE Dedup(Tail(parts), Append(dedup, Head(parts)))

\* A glob pattern '*<text>*<ext>' (inside) or '*<text><ext>'.
GlobPattern(text, inside) == [text |-> text, inside |-> inside]

GlobMatch(name, pat, ext) ==
  LET StemMatch(stem) ==
        IF pat.inside THEN Contains(stem, pat.text) ELSE EndsWith(stem, pat.text)
  IN /\ EndsWith(name, ext)
     /\ StemMatch(SubSeq(name, 1, Len(name) - Len(ext)))

patterns(extra_tags) ==
  LET RECURSIVE TagPatterns(_)
      TagPatterns(tags) ==
        IF tags = <<>> THEN <<>>
        ELSE << GlobPattern(<<"_">> \o Head(tags), FALSE),
                GlobPattern(<<"-">> \o Head(tags), FALSE),
                GlobPattern(Head(tags), TRUE),
                GlobPattern(Head(tags), FALSE) >> \o TagPatterns(Tail(tags))
  IN << GlobPattern(str_Left, TRUE), GlobPattern(str_Right, TRUE),
        GlobPattern(<<"_", "L">>, FALSE), GlobPattern(<<"_", "R">>, FALSE),
        GlobPattern(<<"-", "L">>, FALSE), GlobPattern(<<"-", "R">>, FALSE),
        GlobPattern(<<"L">>, FALSE), GlobPattern(<<"R">>, FALSE) >>
       \o TagPatterns(extra_tags)

InSeq(x, seq) == \E i \in DOMAIN seq : seq[i] = x

\* The progress of one _stereo_rename call: the directory, the paths pass 1
\* has handled, and what was renamed and removed so far.
RenameState(dir) ==
  [dir |-> dir, processed |-> {}, renamed |-> {}, deleted |-> {}]

\* os.remove(new) if it exists, then os.replace(old, new); the replace fails
\* when old is gone.
ReplaceFile(rs, old, new) ==
  [rs EXCEPT
     !.dir = IF old \in rs.dir THEN (rs.dir \ {old, new}) \cup {new}
             ELSE rs.dir \ {new},
     !.renamed = IF old \in rs.dir THEN rs.renamed \cup {<<old, new>>}
                 ELSE rs.renamed,
     !.deleted = IF new \in rs.dir THEN rs.deleted \cup {new} ELSE rs.deleted]

\* The body of the pass 1 loop for one path.
pass1_one(rs, name, extra_tags) ==
  LET LeftViews == {Upper(str_Left), <<"L">>}
      RightViews == {Upper(str_Right), <<"R">>}
      \* whether the loop goes on with a file whose view, in upper case,
      \* is view_norm
      known_view(view_norm) ==
        \/ view_norm \in LeftViews \cup RightViews
        \/ InSeq(view_norm, extra_tags)
      view_token_of(view_norm) ==
        IF view_norm \in LeftViews THEN <<"L">>
        ELSE IF view_norm \in RightViews THEN <<"R">>
        ELSE view_norm
      clean_base_of(base) ==
        JoinStr(Dedup(SplitTokens(StripSet(base, {"_", " ", "."}), <<>>), <<>>))
      new_name_of(match, view_norm) ==
        clean_base_of(match.base) \o <<"_">> \o view_token_of(view_norm)
          \o <<" ">> \o match.frame \o match.ext
      \* the rename and processed.add(path)
      rename_processed(new_name) ==
        [(IF new_name # name THEN ReplaceFile(rs, name, new_name) ELSE rs)
           EXCEPT !.processed = @ \cup {name}]
      pass1_match(match) ==
        IF ~match.matched THEN rs
        ELSE IF ~known_view(Upper(match.view)) THEN rs
        ELSE rename_processed(new_name_of(match, Upper(match.view)))
  IN IF name \in rs.processed \/ name \notin rs.dir THEN rs
     ELSE pass1_match(view_match(name))

\* Every outcome of handling the files of one glob result, in any order.
RECURSIVE pass1_files(_, _, _)
pass1_files(rs, files, extra_tags) ==
  IF files = {} THEN {rs}
  ELSE UNION { pass1_files(pass1_one(rs, f, extra_tags), files \ {f}, extra_tags) :
                 f \in files }

RECURSIVE pass1_root(_, _, _, _)
pass1_root(states, pats, extra_tags, ext) ==
  IF pats = <<>> THEN states
  ELSE pass1_root(
         UNION { pass1_files(rs, { n \in rs.dir : GlobMatch(n, Head(pats), ext) },
                             extra_tags) : rs \in states },
         Tail(pats), extra_tags, ext)

\* The body of the pass 2 loop for one path of plain_candidates.
pass2_one(rs, path) ==
  LET \* the plain-file part: name is the name the file has now, m the
      \* match of _plain_frame_pat
      plain_step(now, name, m) ==
        IF ~m.matched THEN now
        ELSE IF EndsWith(m.base, <<" ">>) THEN now
        ELSE IF EndsWith(m.base, <<"_", "L">>) \/ EndsWith(m.base, <<"_", "R">>)
             THEN now
        ELSE IF m.base \o <<" ">> \o m.frame \o m.ext # name
             THEN ReplaceFile(now, path, m.base \o <<" ">> \o m.frame \o m.ext)
             ELSE now
      new_name_nb(mnum) ==
        mnum.base \o mnum.view \o <<" ">> \o mnum.frame \o mnum.ext
      \* the numbers-before-suffix part, then the plain part
      num_step(mnum) ==
        IF mnum.matched
        THEN plain_step(ReplaceFile(rs, path, new_name_nb(mnum)),
                        new_name_nb(mnum), plain_frame_match(new_name_nb(mnum)))
        ELSE plain_step(rs, path, plain_frame_match(path))
  IN IF path \in rs.processed \/ path \notin rs.dir THEN rs
     ELSE num_step(num_before_suffix_match(path))

RECURSIVE pass2_files(_, _)
pass2_files(rs, files) ==
  IF files = {} THEN {rs}
  ELSE UNION { pass2_files(pass2_one(rs, f), files \ {f}) : f \in files }

IsDigits(str) == str # <<>> /\ AllIn(str, 1, Len(str), Digits)

\* Pass 3 reads a name as a view of a frame, as a plain file of a frame, or
\* as neither, and removes the plain files of the frames that have every
\* expected view unless stereo_keep_plain is on.
pass3(rs, job, ext) ==
  LET extra_tags == job.stereo_extra_tags
      \* parts_split[1].split('.')[0]
      FrameField(rest) == SubSeq(rest, 1, FirstIndexOf(rest, ".") - 1)
      \* tag_part.split('_')[-1]
      TagCandidate(tag_part) ==
        SubSeq(tag_part, LastIndexOf(tag_part, "_") + 1, Len(tag_part))
      is_view_tag(tag_part) ==
        /\ LastIndexOf(tag_part, "_") > 0
        /\ \/ TagCandidate(tag_part) \in {<<"L">>, <<"R">>}
           \/ InSeq(TagCandidate(tag_part), extra_tags)
      plain_entry(pm, frame_no) ==
        IF pm.matched THEN [kind |-> "plain", frame |-> frame_no]
        ELSE [kind |-> "none"]
      \* spaced says f.rsplit(' ', 1) gave two parts, tag_part and one that
      \* starts with frame_no
      classify_parts(f, spaced, tag_part, frame_no) ==
        IF spaced /\ IsDigits(frame_no)
        THEN IF is_view_tag(tag_part)
             THEN [kind |-> "view", frame |-> frame_no,
                   view |-> TagCandidate(tag_part)]
             ELSE plain_entry(plain_frame_match(f), frame_no)
        ELSE plain_entry(plain_frame_match(f), plain_frame_match(f).frame)
      classify_at(f, p) ==
        classify_parts(f, p > 0, SubSeq(f, 1, p - 1),
                       FrameField(SubSeq(f, p + 1, Len(f))))
      classify(f) == classify_at(f, LastIndexOf(f, " "))
      expected_views ==
        {<<"L">>, <<"R">>} \cup { extra_tags[i] : i \in DOMAIN extra_tags }
      \* the views frame_index holds for a frame
      views_of(index, frame) ==
        { index[f].view :
            f \in { x \in DOMAIN index :
                      index[x].kind = "view" /\ index[x].frame = frame } }
      doomed(index) ==
        { f \in DOMAIN index :
            /\ index[f].kind = "plain"
            /\ expected_views \subseteq views_of(index, index[f].frame) }
      remove_all(files) ==
        [rs EXCEPT !.dir = @ \ files, !.deleted = @ \cup files]
      pass3_index(index) ==
        IF job.stereo_keep_plain THEN rs ELSE remove_all(doomed(index))
  IN pass3_index([f \in { x \in rs.dir : EndsWith(Lower(x), ext) } |->
                    classify(f)])

\* Every outcome of _stereo_rename(job) on the base directory dir of a PNG
\* job. search_roots holds the base directory twice, as bdir and as a
\* first-level subfolder of the job root, so passes 1 and 2 visit it twice.
stereo_rename(job, dir) ==
  LET pass1_all(pats, extra_tags, ext) ==
        pass1_root(pass1_root({RenameState(dir)}, pats, extra_tags, ext),
                   pats, extra_tags, ext)
      pass2_all(states, plain_candidates) ==
        UNION { pass2_files(rs, plain_candidates) :
                  rs \in UNION { pass2_files(rs0, plain_candidates) :
                                   rs0 \in states } }
  IN { pass3(rs, job, str_png) :
         rs \in pass2_all(pass1_all(patterns(job.stereo_extra_tags),
                                    job.stereo_extra_tags, str_png),
                          { n \in dir : EndsWith(n, str_png) }) }

MaxFiles == 3

SceneCam == <<"S", "c", "e", "n", "e", "C", "a", "m">>

frame0001 == <<"0", "0", "0", "1">>

\* The file names of one frame, as Blender or an earlier pass can leave them.
StereoNames ==
  { SceneCam \o mid \o str_png :
      mid \in { str_Left \o frame0001, str_Right \o frame0001,
                <<" ">> \o str_Left \o frame0001,
                <<"_", "L", " ">> \o frame0001, <<"_", "R", " ">> \o frame0001,
                <<" ">> \o frame0001, frame0001,
                frame0001 \o <<"_", "L">>, frame0001 \o <<"R">> } }

StereoJobs ==
  [stereo_extra_tags : {<<>>, <<<<"0", "0", "0">>>>, <<<<"A", "L", "T">>>>},
   stereo_keep_plain : BOOLEAN]

StereoCall ==
  /\ call = NoCall
  /\ \E job \in StereoJobs :
       \E dir \in { d \in SUBSET StereoNames : Cardinality(d) <= MaxFiles } :
         \E res \in stereo_rename(job, dir) :
           call' = [fn |-> "stereo_rename",
                    arg |-> [job |-> job, dir |-> dir], res |-> res]
  /\ UNCHANGED dvars

StereoSpec == InitCalls /\ [][StereoCall]_vars

\* ------------------------------------------ the queue operators, on their own
\* The editing operators called one after the other on the Queue State of a
\* scene whose queue is idle, from the state the add-on registers. call.arg
\* is the queue and the selection the operator found, call.res what it left,
\* call.inp the operator's own properties and call.ret what execute returned.
MaxEditQueue == 3

InitEdits ==
  /\ st = [s \in Scenes |-> RQM_State(<<>>, 0)]
  /\ winScene = "SceneA"
  /\ modals = 0
  /\ renders = <<>>
  /\ edits = 0
  /\ g = [s \in Scenes |-> NoRun]
  /\ ev = NoEvent
  /\ call = [fn |-> "registered", inp |-> <<>>, ret |-> "FINISHED",
             arg |-> [queue |-> <<>>, active_index |-> 0],
             res |-> [queue |-> <<>>, active_index |-> 0]]

\* RQM_OT_AddFromCurrent.execute
add_from_current ==
  /\ Len(call.res.queue) < MaxEditQueue
  /\ LET q == Append(call.res.queue, NewJob(winScene))
     IN call' = [fn |-> "add_from_current", inp |-> <<>>, ret |-> "FINISHED",
                 arg |-> call.res,
                 res |-> [queue |-> q, active_index |-> Len(q) - 1]]
  /\ UNCHANGED dvars

\* RQM_OT_AddCamerasInScene.execute: one job per camera of the chosen scene.
add_cameras_in_scene ==
  /\ \E scn \in Scenes, ncams \in 0..MaxCams :
       LET q == call.res.queue \o [k \in 1..ncams |-> NewJob(scn)]
       IN /\ Len(q) <= MaxEditQueue
          /\ call' = [fn |-> "add_cameras_in_scene", inp |-> <<scn, ncams>>,
                      ret |-> IF ncams = 0 THEN "CANCELLED" ELSE "FINISHED",
                      arg |-> call.res,
                      res |-> IF ncams = 0
                              THEN call.res
                              ELSE [queue |-> q, active_index |-> Len(q) - 1]]
  /\ UNCHANGED dvars

\* RQM_OT_DuplicateJob.execute
duplicate_job ==
  /\ Len(call.res.queue) < MaxEditQueue
  /\ \E index \in -1..(Len(call.res.queue) - 1) :
       LET S == call.res
           src_idx == IF index >= 0 THEN index ELSE S.active_index
           found == 0 <= src_idx /\ src_idx < Len(S.queue)
       IN call' = [fn |-> "duplicate_job", inp |-> <<index>>,
                   ret |-> IF found THEN "FINISHED" ELSE "CANCELLED",
                   arg |-> S,
                   res |-> IF found
                           THEN [queue |-> Append(S.queue, S.queue[src_idx + 1]),
                                 active_index |-> Len(S.queue)]
                           ELSE S]
  /\ UNCHANGED dvars

\* remove_job without the clamp of the selection to the shortened queue.
remove_job_unclamped ==
  /\ \E index \in -1..(Len(call.res.queue) - 1) :
       LET S == call.res
           idx == IF index >= 0 THEN index ELSE S.active_index
           found == 0 <= idx /\ idx < Len(S.queue)
       IN call' = [fn |-> "remove_job", inp |-> <<index>>,
                   ret |-> IF found THEN "FINISHED" ELSE "CANCELLED",
                   arg |-> S,
                   res |-> IF found
                           THEN [queue |-> RemoveAt(S.queue, idx),
                                 active_index |-> idx]
                           ELSE S]
  /\ UNCHANGED dvars

\* RQM_OT_RemoveJob.execute
remove_job ==
  /\ \E index \in -1..(Len(call.res.queue) - 1) :
       LET S == call.res
           idx == IF index >= 0 THEN index ELSE S.active_index
           found == 0 <= idx /\ idx < Len(S.queue)
       IN call' = [fn |-> "remove_job", inp |-> <<index>>,
                   ret |-> IF found THEN "FINISHED" ELSE "CANCELLED",
                   arg |-> S,
                   res |-> IF found
                           THEN [queue |-> RemoveAt(S.queue, idx),
                                 active_index |-> Min(idx, Len(S.queue) - 2)]
                           ELSE S]
  /\ UNCHANGED dvars

\* RQM_OT_ClearQueue.execute
clear_queue ==
  /\ call' = [fn |-> "clear_queue", inp |-> <<>>, ret |-> "FINISHED",
              arg |-> call.res,
              res |-> [queue |-> <<>>, active_index |-> 0]]
  /\ UNCHANGED dvars

\* RQM_OT_MoveJob.execute. A move the bpy collection is asked for with an
\* index outside the queue moves nothing.
move_job ==
  /\ \E direction \in {"UP", "DOWN"} :
       LET S == call.res
           idx == S.active_index
           inside(a, b) == {a, b} \subseteq 0..(Len(S.queue) - 1)
           moved(a, b) == IF inside(a, b) THEN Swap(S.queue, a, b) ELSE S.queue
       IN call' =
            IF direction = "UP" /\ idx > 0
            THEN [fn |-> "move_job", inp |-> <<direction>>, ret |-> "FINISHED",
                  arg |-> S,
                  res |-> [queue |-> moved(idx, idx - 1), active_index |-> idx - 1]]
            ELSE IF direction = "DOWN" /\ idx < Len(S.queue) - 1
            THEN [fn |-> "move_job", inp |-> <<direction>>, ret |-> "FINISHED",
                  arg |-> S,
                  res |-> [queue |-> moved(idx, idx + 1), active_index |-> idx + 1]]
            ELSE [fn |-> "move_job", inp |-> <<direction>>, ret |-> "CANCELLED",
                  arg |-> S, res |-> S]
  /\ UNCHANGED dvars

NextEdits ==
  \/ add_from_current
  \/ add_cameras_in_scene
  \/ duplicate_job
  \/ remove_job
  \/ clear_queue
  \/ move_job

EditSpec == InitEdits /\ [][NextEdits]_vars

\* -------------------------------------------------- handler registration
\* bpy.app.handlers: the lists register_handlers and unregister_handlers act
\* on. A handler is known by its _rqm_tag and by whether the host keeps it
\* when it loads a file (the add-on's handlers are not @persistent). `call`
\* holds the last operation on the lists, with the lists before and after it.
MaxForeign == 1

HandlerLists ==
  {"render_complete", "render_cancel", "depsgraph_update_post", "render_init",
   "render_stats"}

RqmHandler == [rqm_tag |-> TRUE, persistent |-> FALSE]

ForeignHandler == [rqm_tag |-> FALSE, persistent |-> TRUE]

\* _tagged
tagged(hlist) == \E i \in DOMAIN hlist : hlist[i].rqm_tag

\* register_handlers without the `if not _tagged(...)` tests.
register_handlers_untested(h) ==
  [l \in HandlerLists |-> Append(h[l], RqmHandler)]

register_handlers(h) ==
  [l \in HandlerLists |->
     IF ~tagged(h[l]) THEN Append(h[l], RqmHandler) ELSE h[l]]

unregister_handlers(h) ==
  LET untagged(x) == ~x.rqm_tag
      \* _remove_tagged
      remove_tagged(hlist) == SelectSeq(hlist, untagged)
  IN [l \in HandlerLists |-> remove_tagged(h[l])]

\* The host starts with no handler of the add-on in its lists.
InitHandlers ==
  /\ st = [s \in Scenes |-> RQM_State(<<>>, 0)]
  /\ winScene = "SceneA"
  /\ modals = 0
  /\ renders = <<>>
  /\ edits = 0
  /\ g = [s \in Scenes |-> NoRun]
  /\ ev = NoEvent
  /\ call = [fn |-> "host_started", arg |-> [l \in HandlerLists |-> <<>>],
             res |-> [l \in HandlerLists |-> <<>>]]

\* register_handlers(), as register() of the add-on, Start and every poll
\* tick call it.
RegisterHandlers ==
  /\ call' = [fn |-> "register_handlers", arg |-> call.res,
              res |-> register_handlers(call.res)]
  /\ UNCHANGED dvars

UnregisterHandlers ==
  /\ call' = [fn |-> "unregister_handlers", arg |-> call.res,
              res |-> unregister_handlers(call.res)]
  /\ UNCHANGED dvars

\* Something else than the add-on appends a handler of its own to a list.
ForeignAppends ==
  /\ \E l \in HandlerLists :
       /\ Len(SelectSeq(call.res[l], LAMBDA x : ~x.rqm_tag)) < MaxForeign
       /\ call' = [fn |-> "foreign_append", arg |-> call.res,
                   res |-> [call.res EXCEPT ![l] = Append(@, ForeignHandler)]]
  /\ UNCHANGED dvars

\* The host loads a file: it drops the handlers that are not persistent.
HostLoadsFile ==
  /\ call' = [fn |-> "load_file", arg |-> call.res,
              res |-> [l \in HandlerLists |->
                         SelectSeq(call.res[l], LAMBDA x : x.persistent)]]
  /\ UNCHANGED dvars

NextHandlers ==
  \/ RegisterHandlers
  \/ UnregisterHandlers
  \/ ForeignAppends
  \/ HostLoadsFile

HandlerSpec == InitHandlers /\ [][NextHandlers]_vars

\* ------------------------------------------------------------ the claims
\* ev names the step that led to the current state, so in an action formula
\* ev' names the step being taken; unprimed variables are the state before it.
\* Operators that find nothing to do change nothing and are no step.
Step(tags) == ev' \in tags /\ vars' # vars

Idx(s) == st[s].current_job_index

IdxAfter(s) == st'[s].current_job_index

DispatchTags == {"render_started", "render_raised", "handler_then_raised"}

CallbackTags == {"complete_advanced", "complete_kept", "cancel_advanced", "cancel_kept"}

\* The tick finds the queue running, render_in_progress set and no render job
\* in the host, and the host answers the query (the tick is not TickWaiting).
StallCase ==
  /\ Step({"stall", "queue_complete"})
  /\ TickState.running
  /\ TickState.render_in_progress
  /\ ~IsJobRunning

StallCompensated ==
  /\ ~st'[winScene].render_in_progress
  /\ st'[winScene].skip_increment_once
  /\ IdxAfter(winScene) = Idx(winScene) + 1

Surviving == IF Len(renders') < Len(renders) THEN 2..Len(renders) ELSE DOMAIN renders

\* C2: a step that increases current_job_index of a running queue from i never
\* happens while the host render dispatched for job i is still running.
C2_AdvanceOnlyAfterRenderEnded ==
  [][\A s \in Scenes :
       (st[s].running /\ st'[s].running /\ IdxAfter(s) > Idx(s)) =>
         ~\E k \in Surviving : /\ renders[k].owner = s
                               /\ renders[k].tag = "cur"
                               /\ renders[k].phase = "running"]_vars

\* C3: apply_job and the host render call happen only in ticks that find
\* render_in_progress false, and a dispatch that starts a render sets it true
\* and hands the host exactly one render, for the job at current_job_index.
C3_DispatchOnlyWhenIdle ==
  [][Step(DispatchTags \cup {"apply_failed"}) =>
       /\ ~TickState.render_in_progress
       /\ (ev' = "render_started" =>
             /\ st'[winScene].render_in_progress
             /\ Len(renders') = Len(renders) + 1
             /\ renders'[Len(renders')].owner = winScene
             /\ IdxAfter(winScene) = TickIndex)]_vars

\* A tick has just dispatched a job: its render is the host's newest.
C3_Witness ==
  /\ ev = "render_started"
  /\ renders # <<>>
  /\ LET r == renders[Len(renders)]
     IN /\ r.tag = "cur"
        /\ st[r.owner].render_in_progress
        /\ Idx(r.owner) \in g[r.owner].invoked

\* C4: within one run the host render call is invoked for strictly increasing
\* queue indices.
C4_DispatchIndexIncreases ==
  [][Step(DispatchTags) =>
       \A j \in g[winScene].invoked : j < TickIndex]_vars

\* C5: when the dispatcher reports completion of a run whose queue was not
\* edited, apply_job has been attempted for every enabled job.
C5_NoEnabledJobPassedOver ==
  [][(Step({"queue_complete"}) /\ ~g[winScene].edited) =>
       \A i \in 0..(Len(TickState.queue) - 1) :
         TickState.queue[i + 1].enabled => i \in g[winScene].applied]_vars

\* C6: with fair poll ticks and a host that ends every render job and answers
\* the render-job query, a running queue always comes back to Idle.
C6_RunningQueueReachesIdle ==
  \A s \in Scenes : st[s].running ~> ~st[s].running

\* The state the callback of the host's oldest render acts on.
CallbackState == st[Head(renders).scene]

CallbackStateAfter == st'[Head(renders).scene]

C7_Advance ==
  /\ ~CallbackStateAfter.render_in_progress
  /\ CallbackStateAfter.current_job_index = CallbackState.current_job_index + 1

C7_Keep ==
  (~CallbackState.running \/ ~CallbackState.render_in_progress) =>
    CallbackStateAfter.current_job_index = CallbackState.current_job_index

C8_LateCallbackDoesNotAdvance ==
  [][(/\ Step(CallbackTags)
      /\ Head(renders).tag = "stalled") =>
       IdxAfter(Head(renders).owner) = Idx(Head(renders).owner)]_vars

\* C9: a tick whose host render call raises for the job at index i ends with
\* render_in_progress false, current_job_index i + 1 and the queue running.
C9_RenderCallRaised ==
  [][Step({"render_raised", "handler_then_raised"}) =>
       /\ ~st'[winScene].render_in_progress
       /\ IdxAfter(winScene) = TickIndex + 1
       /\ st'[winScene].running]_vars

C10_NoRender ==
  /\ ~st'[winScene].render_in_progress
  /\ st'[winScene].running
  /\ Len(renders') = Len(renders)
  /\ g'[winScene].invoked = g[winScene].invoked

\* C10 as stated: a tick in which apply_job fails increases current_job_index
\* by exactly one, leaves render_in_progress false, invokes no host render
\* and keeps the queue running.
C10_ApplyFailedAddsOne ==
  [][Step({"apply_failed"}) =>
       /\ IdxAfter(winScene) = Idx(winScene) + 1
       /\ C10_NoRender]_vars

\* C10 as amended: the tick leaves current_job_index exactly one past the job
\* apply_job failed for, which is the first enabled job at or after the index
\* the tick began with.
C10_ApplyFailedStepsPastJob ==
  [][Step({"apply_failed"}) =>
       /\ IdxAfter(winScene) = TickIndex + 1
       /\ TickState.queue[TickIndex + 1].enabled
       /\ C10_NoRender]_vars

\* A tick has just stepped past an enabled job apply_job failed for, without a
\* render call.
C10_Witness ==
  /\ ev = "apply_failed"
  /\ \E s \in Scenes : /\ st[s].running
                       /\ ~st[s].render_in_progress
                       /\ Idx(s) >= 1
                       /\ (Idx(s) - 1) \in g[s].applied \ g[s].invoked
                       /\ st[s].queue[Idx(s)].enabled

\* The first index at or after i that holds an enabled job, or the length of
\* the queue when there is none (i itself when it is past the queue already).
FirstEnabledFrom(q, i) ==
  IF i >= Len(q) THEN i
  ELSE CHOOSE j \in i..Len(q) :
         /\ (j < Len(q) => q[j + 1].enabled)
         /\ \A k \in i..(j - 1) : ~q[k + 1].enabled

\* A tick of a running queue that changes the state: the steps ev names, and
\* the waiting tick, the only other step that moves the index of a queue that
\* stays running.
RunningTick ==
  /\ modals > 0
  /\ TickState.running
  /\ \/ Step(DispatchTags \cup {"apply_failed", "stall", "queue_complete"})
     \/ /\ ev' = "other"
        /\ st'[winScene].running
        /\ IdxAfter(winScene) # Idx(winScene)

\* C11: a tick of a running queue never applies or renders a disabled job: it
\* ends the run when only disabled jobs are left, and otherwise leaves
\* current_job_index at or past the first enabled job, which is the only job
\* it may apply and render.
C11_DisabledJobsSkipped ==
  [][RunningTick =>
       LET s == winScene
           q == TickState.queue
           k == FirstEnabledFrom(q, Idx(s))
       IN IF k >= Len(q)
          THEN /\ ~st'[s].running
               /\ renders' = Retag(renders, st', NoStall)
          ELSE /\ IdxAfter(s) >= k
               /\ q[k + 1].enabled
               /\ g'[s].applied \subseteq g[s].applied \cup {k}
               /\ g'[s].invoked \subseteq g[s].invoked \cup {k}]_vars

\* One tick has gone past a disabled first job and applied the second.
C11_Witness ==
  /\ ev \in DispatchTags \cup {"apply_failed"}
  /\ \E s \in Scenes : /\ ~g[s].edited
                       /\ Len(st[s].queue) = 2
                       /\ ~st[s].queue[1].enabled
                       /\ g[s].applied = {1}

\* What Stop leaves in the state it acts on.
Stopped(T) ==
  /\ ~T.running
  /\ T.current_job_index = -1
  /\ ~T.render_in_progress

\* C12: Stop leaves running false, current_job_index -1 and render_in_progress
\* false; no step applies or dispatches a job for a queue that is not running;
\* a tick that finds the queue stopped ends its modal (the only step that ends
\* a modal of a queue that is not running) and changes nothing else.
C12_StopHalts ==
  [][/\ StopQueue => Stopped(st'[winScene])
     /\ \A s \in Scenes :
          ~st[s].running =>
            /\ g'[s].applied \subseteq g[s].applied
            /\ g'[s].invoked \subseteq g[s].invoked
            /\ Len(renders') > Len(renders) => renders'[Len(renders')].owner # s
     /\ (modals' < modals /\ ~TickState.running) =>
          /\ modals' = modals - 1
          /\ UNCHANGED <<st, winScene, renders, g>>]_vars

\* A queue has been stopped with its render still in the host and its modal
\* still to tick.
C12_Witness ==
  /\ winScene = "SceneA"
  /\ Stopped(st["SceneA"])
  /\ modals > 0
  /\ \E k \in DOMAIN renders : renders[k].owner = "SceneA" /\ renders[k].phase = "running"

\* C13: a Start that finds the queue idle and non-empty leaves running true,
\* current_job_index 0 and render_in_progress false; a Start that finds the
\* queue running or empty leaves the three fields as they were.
C13_StartFromIdleOnly ==
  [][StartQueue =>
       LET T == TickState
           U == st'[winScene]
       IN IF ~T.running /\ Len(T.queue) > 0
          THEN U.running /\ U.current_job_index = 0 /\ ~U.render_in_progress
          ELSE /\ U.running = T.running
               /\ U.current_job_index = T.current_job_index
               /\ U.render_in_progress = T.render_in_progress]_vars

\* A second run of a queue has just been started: a render of the run before
\* it is still in the host, and nothing has been applied yet.
C13_Witness ==
  \E s \in Scenes :
    /\ st[s].running
    /\ Idx(s) = 0
    /\ ~st[s].render_in_progress
    /\ g[s] = NoRun
    /\ \E k \in DOMAIN renders : renders[k].owner = s /\ renders[k].tag = "old"

\* C20: when render_complete finds a job at current_job_index to post-process,
\* the render that has just finished is the render of that job: it was
\* dispatched by the queue the callback acts on and that queue has not moved
\* past it, by a stall tick or otherwise.
C20_PostProcessesFinishedJob ==
  [][(/\ Step({"complete_advanced", "complete_kept"})
      /\ 0 <= CallbackState.current_job_index
      /\ CallbackState.current_job_index < Len(CallbackState.queue)) =>
       /\ Head(renders).owner = Head(renders).scene
       /\ Head(renders).tag = "cur"]_vars

\* The enabled outputs of an apply_job call whose sync fails.
FailingOutputs(a) ==
  { k \in DOMAIN a.comp_outputs :
      LET out == a.comp_outputs[k]
      IN out.enabled /\ ~(out.node_found /\ out.file_picked /\ out.dir_ok) }

\* An apply_job call that gets as far as the compositor outputs and has an
\* enabled output whose sync fails.
CompFailureCase ==
  /\ call.fn = "apply_job"
  /\ call.arg.job.scene_name \in Scenes
  /\ call.arg.engine_ok
  /\ call.arg.markers_ok
  /\ call.arg.use_comp_outputs
  /\ FailingOutputs(call.arg) # {}

\* C15: when the sync of an enabled compositor output fails, apply_job succeeds
\* if comp_outputs_non_blocking is true, and otherwise fails with the messages
\* of the failing outputs, and only those, joined.
C15_CompErrorsEscalate ==
  CompFailureCase =>
    LET a == call.arg
        msg == call.res[2]
    IN IF a.non_blocking
       THEN call.res[1]
       ELSE /\ ~call.res[1]
            /\ Len(msg) = 2 * Cardinality(FailingOutputs(a)) - 1
            /\ { msg[i] : i \in { j \in DOMAIN msg : j % 2 = 1 } }
                 = { sync_one_output(a.comp_outputs[k])[2] : k \in FailingOutputs(a) }
            /\ \A i \in DOMAIN msg : i % 2 = 0 => msg[i] = "; "

\* apply_job has failed on two compositor outputs of a job that blocks on them.
C15_Witness ==
  /\ CompFailureCase
  /\ ~call.arg.non_blocking
  /\ Cardinality(FailingOutputs(call.arg)) = 2
  /\ ~call.res[1]
  /\ Len(call.res[2]) = 3

\* How many characters of str are in set.
CountIn(str, set) == Cardinality({i \in DOMAIN str : str[i] \in set})

\* C19: the name _sanitize_component returns holds no character of
\* INVALID_CHARS, holds a '_' for each such character of the input, and is
\* never a reserved device name in any letter case; a reserved name comes back
\* as _NAME_ and an input of whitespace only comes back as 'untitled'.
C19_SanitizeComponent ==
  (call.fn = "sanitize_component") =>
    LET name == call.arg
        out == call.res
        blank == \A i \in DOMAIN name : name[i] \in Whitespace
    IN /\ CountIn(out, INVALID_CHARS) = 0
       /\ out # untitled => CountIn(out, {"_"}) >= CountIn(name, INVALID_CHARS)
       /\ Upper(out) \notin reserved
       /\ Upper(name) \in reserved => out = <<"_">> \o name \o <<"_">>
       /\ blank => out = untitled

\* A reserved name written in mixed case has come back wrapped.
C19_Witness ==
  /\ call.fn = "sanitize_component"
  /\ call.arg = <<"c", "O", "N">>
  /\ call.res = <<"_", "c", "O", "N", "_">>

\* The render-prefix call of apply_job, job_file_prefix(job, bdir, 'base'),
\* for a job with the default naming options and an empty filename base.
RenderPrefixCase ==
  /\ call.fn = "job_file_prefix"
  /\ call.arg.job.file_basename = <<>>
  /\ call.arg.job.name # <<>>
  /\ call.arg.job.prefix_files_with_job_name
  /\ ~call.arg.job.suffix_output_folders_with_job
  /\ call.arg.base_dir = base_render_dir(call.arg.job)
  /\ call.arg.fallback_tokens = <<str_base>>
  /\ call.arg.override_token = <<>>
  /\ call.arg.append_tokens = <<>>

\* C16: with an empty filename base the render prefix of a job is
\* '<job>_base ', the tail taken from the base folder under the job root, or
\* '<job> ' when that folder token equals the job name.
C16_EmptyBaseDerivesFromFolder ==
  RenderPrefixCase =>
    /\ base_render_dir(call.arg.job) = <<call.arg.job.name, str_base>>
    /\ call.res = IF Lower(call.arg.job.name) = Lower(str_base)
                  THEN call.arg.job.name \o <<" ">>
                  ELSE call.arg.job.name \o <<"_">> \o str_base \o <<" ">>

\* C14: after the rebase pass a job that rendered frames s..e has exactly
\* one file per rendered frame, frame f in the file numbered f-s at the same
\* width, whatever order the directory was listed in.
C14_RebaseKeepsEveryFrame ==
  (call.fn = "rebase_numbering") =>
    LET job == call.arg.job
    IN call.res =
         { [name |-> ZFill(StrOf(f - job.frame_start), call.arg.width),
            content |-> f] : f \in job.frame_start..job.frame_end }

\* C17: a file <base>Left<frame><ext> of the base directory is renamed to
\* <base>_L <frame><ext>, and <base>Right<frame><ext> to <base>_R <frame><ext>.
C17_LeftRightRenamed ==
  (call.fn = "stereo_rename") =>
    \A view \in {<<str_Left, "L">>, <<str_Right, "R">>} :
      LET old == SceneCam \o view[1] \o frame0001 \o str_png
          new == SceneCam \o <<"_", view[2], " ">> \o frame0001 \o str_png
      IN old \in call.arg.dir => (new \in call.res.dir /\ old \notin call.res.dir)

\* A name in the final form: <base> <frame><ext>, where <base> may end in
\* _<TAG>.
FinalForm(name) ==
  /\ EndsWith(name, str_png)
  /\ \E p \in 2..(Len(name) - Len(str_png) - 1) :
       /\ name[p] = " "
       /\ AllIn(name, p + 1, Len(name) - Len(str_png), Digits)

\* C18: on a directory whose files are all in the final form _stereo_rename
\* renames nothing and removes nothing.
C18_FinalFormUntouched ==
  (/\ call.fn = "stereo_rename"
   /\ \A name \in call.arg.dir : FinalForm(name)) =>
    /\ call.res.renamed = {}
    /\ call.res.deleted = {}
    /\ call.res.dir = call.arg.dir

\* How many handlers of a list carry _rqm_tag.
TaggedIn(hlist) == Cardinality({ i \in DOMAIN hlist : hlist[i].rqm_tag })

\* C21: whatever sequence of register_handlers and unregister_handlers calls
\* (and of host operations on the lists) has run, every host handler list
\* holds at most one handler tagged _rqm_tag, exactly one right after
\* register_handlers and none right after unregister_handlers.
C21_HandlersNeverDuplicate ==
  \A l \in HandlerLists :
    /\ TaggedIn(call.res[l]) <= 1
    /\ call.fn = "register_handlers" => TaggedIn(call.res[l]) = 1
    /\ call.fn = "unregister_handlers" => TaggedIn(call.res[l]) = 0

\* register_handlers has run on lists that held the add-on's handlers
\* already, behind a handler of someone else in one of them, and added none.
C21_Witness ==
  /\ call.fn = "register_handlers"
  /\ \A l \in HandlerLists : TaggedIn(call.arg[l]) = 1
  /\ call.res = call.arg
  /\ \E l \in HandlerLists : Len(call.res[l]) = 2 /\ call.res[l][2].rqm_tag

\* More modal instances are alive than queues are running: each Start makes
\* one queue run and adds one instance, so one of the instances was added by
\* an earlier Start.
LeftOverModal == modals > Cardinality({ s \in Scenes : st[s].running })

\* C22: a modal instance left over from an earlier Start processes no tick of
\* a later run: a tick taken while such an instance is alive ends a modal
\* instance. modal() reads nothing of the instance it is called on, so a tick
\* of the model is the tick of any live instance, the one left over included.
C22_LeftOverModalEnds ==
  [][(Tick /\ LeftOverModal) => modals' < modals]_vars

\* The callback of the host's oldest render finds the queue that dispatched
\* it running, with render_in_progress set and current_job_index, inside the
\* queue, still on the job the render was dispatched for.
CallbackOfCurrentRender ==
  /\ Step(CallbackTags)
  /\ Head(renders).tag = "cur"
  /\ Head(renders).owner = Head(renders).scene
  /\ CallbackState.running
  /\ CallbackState.render_in_progress
  /\ CallbackState.current_job_index < Len(CallbackState.queue)

\* C23: the flag a stall tick sets cancels the increment of the stalled
\* render's callback only: the callback of a render that is the current one
\* of its queue (so dispatched after any force-advance) adds one to
\* current_job_index.
C23_SuppressOnlyStalledCallback ==
  [][CallbackOfCurrentRender =>
       IdxAfter(Head(renders).owner) = Idx(Head(renders).owner) + 1]_vars

\* How many renders dispatched by the queue of scene s the host still holds.
InFlightOf(s) == Cardinality({ k \in DOMAIN renders : renders[k].owner = s })

\* A callback fires for the host's oldest render while the queue that
\* dispatched it is running and the host holds more of that queue's renders
\* than its present run has invoked: the oldest one is of an earlier run.
CallbackOfEarlierRun ==
  /\ Step(CallbackTags)
  /\ st[Head(renders).owner].running
  /\ InFlightOf(Head(renders).owner) >
       Cardinality(g[Head(renders).owner].invoked)

\* C24: the callback of a render dispatched in an earlier run neither clears
\* render_in_progress nor moves current_job_index of the run a later Start
\* began.
C24_EarlierRunCallbackIgnored ==
  [][CallbackOfEarlierRun =>
       /\ st'[Head(renders).owner].render_in_progress
            = st[Head(renders).owner].render_in_progress
       /\ IdxAfter(Head(renders).owner) = Idx(Head(renders).owner)]_vars

\* C25: while render_in_progress is true of a running queue, the job at
\* current_job_index is the job the queue's current render was dispatched
\* for: it is inside the queue and it is a job for the scene that render
\* renders, whatever edits were made during the render.
C25_CurrentJobIsRenderedJob ==
  \A k \in DOMAIN renders :
    LET o == renders[k].owner
    IN (/\ renders[k].tag = "cur"
        /\ st[o].running
        /\ st[o].render_in_progress) =>
         /\ Idx(o) < Len(st[o].queue)
         /\ st[o].queue[Idx(o) + 1].scene_name = renders[k].scene

\* C26: while a queue is running every poll tick works on the state Start
\* marked running, and every render_complete / render_cancel callback of a
\* render that a running queue dispatched works on that queue's state, also
\* after apply_job has made another scene the window's scene.
C26_RunningStateServed ==
  [][/\ (Tick /\ \E s \in Scenes : st[s].running) => TickState.running
     /\ (Step(CallbackTags) /\ st[Head(renders).owner].running) =>
          Head(renders).scene = Head(renders).owner]_vars

\* C27: in every state a running queue has 0 <= current_job_index <=
\* len(queue) and a queue that is not running has current_job_index -1.
C27_IndexWithinQueue ==
  \A s \in Scenes :
    /\ st[s].running =>
         /\ 0 <= st[s].current_job_index
         /\ st[s].current_job_index <= Len(st[s].queue)
    /\ ~st[s].running => st[s].current_job_index = -1

\* C28: in every state render_in_progress is true only of a running queue.
C28_RenderInProgressOnlyRunning ==
  \A s \in Scenes : st[s].render_in_progress => st[s].running

\* C29: after every call of an editing operator a non-empty queue has
\* 0 <= active_index < len(queue), and MoveJob UP at the first position or
\* DOWN at the last one returns CANCELLED and leaves the queue and
\* active_index as they were.
C29_SelectionInRange ==
  /\ Len(call.res.queue) > 0 =>
       /\ 0 <= call.res.active_index
       /\ call.res.active_index < Len(call.res.queue)
  /\ (/\ call.fn = "move_job"
      /\ \/ call.inp = <<"UP">> /\ call.arg.active_index = 0
         \/ call.inp = <<"DOWN">> /\
              call.arg.active_index = Len(call.arg.queue) - 1) =>
       /\ call.ret = "CANCELLED"
       /\ call.res = call.arg

\* MoveJob DOWN was called with the selection on the last of two jobs and
\* was cancelled.
C29_Witness ==
  /\ call.fn = "move_job"
  /\ call.inp = <<"DOWN">>
  /\ call.ret = "CANCELLED"
  /\ Len(call.arg.queue) = 2
  /\ call.arg.active_index = 1

\* C30: _sanitize_component applied to its own result returns that result,
\* and the result neither starts nor ends with whitespace and does not end
\* with a dot.
C30_SanitizeIdempotent ==
  (call.fn = "sanitize_component") =>
    LET out == call.res
    IN /\ sanitize_component(out) = out
       /\ out[1] \notin Whitespace
       /\ out[Len(out)] \notin Whitespace \cup {"."}
====
